---- MODULE Spec2Model ----
(***************************************************************************)
(* Model of src/src/components/Card.js: the projective-plane deck builder  *)
(* constructProjectivePlane, the verifier verifyProjectivePlane, the glyph *)
(* table SYMBOLS with generateCardSymbols, and the App component that      *)
(* builds and verifies the deck at startup and on a button click.          *)
(*                                                                         *)
(* Cards are sequences (1-based here, 0-based in the source); every card   *)
(* position and point index exposed by the model is the source's 0-based   *)
(* value.                                                                  *)
(***************************************************************************)
EXTENDS Integers, Sequences, FiniteSets, TLC

\* Orders the builder is exercised with: 2..MaxOrder.
MaxOrder == 7

\* Largest number of button clicks followed in one run of the App.
MaxClicks == 12

\* Every MutStride-th card of the order-7 deck is taken as the card a symbol
\* is put onto.
MutStride == 7

Orders == 2..MaxOrder

\* The orders of the test set of the builder's properties.
TestOrders == {2, 3, 5, 7}

\* The string 'inf' used as a coordinate: a value different from every number
\* in [0, q).
Inf == -1

\* The value of an array read outside its bounds.
Undefined == -2

Range(s) == {s[i] : i \in 1..Len(s)}

-----------------------------------------------------------------------------
(* constructProjectivePlane: helpers                                       *)

add_nomod(q, a, b) == a + b

\* const add = (a, b) => ((a + b) % q)
add(q, a, b) == (a + b) % q

multiply_asadd(q, a, b) == (a + b) % q

\* const multiply = (a, b) => ((a * b) % q)
multiply(q, a, b) == (a * b) % q

\* Inner loop of the affine points: [x, 0], ..., [x, q-1].
AffineRow(q, x) == [y1 \in 1..q |-> <<x, y1 - 1>>]

RECURSIVE AffineFrom(_, _)
\* Outer loop of the affine points, from x upward.
AffineFrom(q, x) == IF x >= q THEN <<>> ELSE AffineRow(q, x) \o AffineFrom(q, x + 1)

\* The points array: affine points, then [x, 'inf'], then ['inf', 'inf'].
Points(q) == AffineFrom(q, 0) \o [x1 \in 1..q |-> <<x1 - 1, Inf>>] \o << <<Inf, Inf>> >>

findIndex_onebased(points, a, c) ==
    IF \E i \in 1..Len(points) : points[i] = <<a, c>>
    THEN CHOOSE i \in 1..Len(points) : points[i] = <<a, c>>
    ELSE -1

\* points.findIndex(p => p[0] === a && p[1] === c): the 0-based position of
\* the first match, -1 when there is none.
findIndex(points, a, c) ==
    IF \E i \in 1..Len(points) : points[i][1] = a /\ points[i][2] = c
    THEN (CHOOSE i \in 1..Len(points) :
             /\ points[i][1] = a /\ points[i][2] = c
             /\ \A j \in 1..(i - 1) : ~(points[j][1] = a /\ points[j][2] = c)) - 1
    ELSE -1

\* The line y = m*x + b with the point at infinity of slope m.
SlantedLine(q, points, m, b) ==
    [x1 \in 1..q |-> findIndex(points, x1 - 1, add(q, multiply(q, m, x1 - 1), b))]
        \o <<findIndex(points, m, Inf)>>

\* The line x = k with the point (inf, inf).
VerticalLine(q, points, k) ==
    [y1 \in 1..q |-> findIndex(points, k, y1 - 1)] \o <<findIndex(points, Inf, Inf)>>

\* The line at infinity.
InfinityLine(q, points) ==
    [x1 \in 1..q |-> findIndex(points, x1 - 1, Inf)] \o <<findIndex(points, Inf, Inf)>>

\* plane[i].filter(point => plane[j].includes(point)).length
Intersection(a, b) ==
    LET inB == Range(b)
    IN  Cardinality({k \in 1..Len(a) : a[k] \in inB})

constructProjectivePlane_verticalFirst(order) ==
    LET q == order
        points == Points(q)
    IN  [k1 \in 1..q |-> VerticalLine(q, points, k1 - 1)]
            \o [i \in 1..(q * q) |-> SlantedLine(q, points, (i - 1) \div q, (i - 1) % q)]
            \o <<InfinityLine(q, points)>>

\* The whole of the construction (lines 56-87): slanted lines with m in the
\* outer and b in the inner loop, then the vertical lines, then the line at
\* infinity.
constructProjectivePlane(order) ==
    LET q == order
        points == Points(q)
    IN  [i \in 1..(q * q) |-> SlantedLine(q, points, (i - 1) \div q, (i - 1) % q)]
            \o [k1 \in 1..q |-> VerticalLine(q, points, k1 - 1)]
            \o <<InfinityLine(q, points)>>

SelfCheck_silent(order, plane) == {}

\* The console.error calls of the construction's checks (lines 89-109), as
\* the set of findings <<kind, i, j, actual>> (i, j are 0-based card
\* positions, -1 where the message names none).
SelfCheck(order, plane) ==
    LET q == order
        n == q * q + q + 1
    IN  {<<"count", -1, -1, Len(plane)>> : u \in IF Len(plane) # n THEN {0} ELSE {}}
        \cup {<<"length", i - 1, -1, Len(plane[i])>> :
                 i \in {i \in 1..Len(plane) : Len(plane[i]) # q + 1}}
        \cup UNION {{<<"pair", i - 1, j - 1, Intersection(plane[i], plane[j])>> :
                        j \in {j \in (i + 1)..Len(plane) :
                                  Intersection(plane[i], plane[j]) # 1}} :
                    i \in 1..Len(plane)}

-----------------------------------------------------------------------------
(* verifyProjectivePlane                                                   *)

\* const q = 7 in verifyProjectivePlane.
VerifyOrder == 7

PairOK_atleast(a, b) == Intersection(a, b) >= 1

\* The test of line 134, negated: the pair is accepted.
PairOK(a, b) == Intersection(a, b) = 1

\* The test of line 127, negated: the card's length is accepted.
SizeOK(card, q) == Len(card) = q + 1

\* The errors array, as the set of findings <<kind, i, j, actual>>; every
\* finding of one call differs from the others, so the set has as many
\* members as the array has entries.
verifyErrors(plane) ==
    LET n == Len(plane)
        q == VerifyOrder
        expectedN == q * q + q + 1
        totalUniqueSymbols == UNION {Range(plane[i]) : i \in 1..n}
    IN  {<<"count", -1, -1, n>> : u \in IF n # expectedN THEN {0} ELSE {}}
        \cup {<<"length", i - 1, -1, Len(plane[i])>> :
                 i \in {i \in 1..n : ~SizeOK(plane[i], q)}}
        \cup UNION {{<<"pair", i - 1, j - 1, Intersection(plane[i], plane[j])>> :
                        j \in {j \in (i + 1)..n : ~PairOK(plane[i], plane[j])}} :
                    i \in 1..n}
        \cup {<<"unique", -1, -1, Cardinality(totalUniqueSymbols)>> :
                 u \in IF Cardinality(totalUniqueSymbols) # expectedN THEN {0} ELSE {}}

\* The value returned: false when errors.length > 0, true otherwise.
verifyProjectivePlane(plane) == verifyErrors(plane) = {}

-----------------------------------------------------------------------------
(* SYMBOLS and generateCardSymbols                                         *)

\* The glyph table, each glyph written as its Unicode code point.
SYMBOLS ==
    << 9824, 9829, 9830, 9827, 9828, 9825, 9826, 9831,
       9818, 9819, 9820, 9821, 9822, 9823, 9728, 9729,
       9730, 9731, 9732, 9733, 9734, 9742, 9743, 9744,
       9745, 9746, 9747, 9750, 9751, 9752, 9753, 9754,
       9755, 9756, 9757, 9758, 9759, 9760, 9761, 9762,
       9763, 9764, 9765, 9766, 9767, 9768, 9769, 9770,
       9771, 9772, 9773, 9774, 9775, 9776, 9777, 9778 >>

\* SYMBOLS[point]: undefined outside the table.
SymbolAt(point) ==
    IF point + 1 \in 1..Len(SYMBOLS) THEN SYMBOLS[point + 1] ELSE Undefined

\* const order = 7 in generateCardSymbols.
AppOrder == 7

generateCardSymbols ==
    LET projective_plane == constructProjectivePlane(AppOrder)
    IN  [i \in 1..Len(projective_plane) |->
            [j \in 1..Len(projective_plane[i]) |-> SymbolAt(projective_plane[i][j])]]

\* result ? "Verification passed!" : "Verification failed."
StatusOf(result) == IF result THEN "Verification passed!" ELSE "Verification failed."

-----------------------------------------------------------------------------
(* State                                                                   *)

VARIABLES
    order,              \* the argument of constructProjectivePlane
    pc,                 \* where the run stands
    plane,              \* the deck returned by constructProjectivePlane
    consoleErrors,      \* what the construction's own checks reported
    deck,               \* the argument of the latest verifyProjectivePlane call
    passed,             \* what that call returned
    errors,             \* the errors array of that call
    mutation,           \* the card, position and symbol of the change made to the deck
    cardSymbols,        \* App: useState([])
    verificationResult, \* App: useState(null)
    handlerDeck,        \* App: the cardSymbols the rendered handleVerify closes over
    verifyLog           \* App: one entry per verifyProjectivePlane call, in order

vars == <<order, pc, plane, consoleErrors, deck, passed, errors, mutation,
          cardSymbols, verificationResult, handlerDeck, verifyLog>>

appVars == <<cardSymbols, verificationResult, handlerDeck, verifyLog>>

libVars == <<order, plane, consoleErrors, mutation>>

NoMutation == [card |-> -1, pos |-> -1, symbol |-> -1]

\* The deck with symbol s put onto card c (0-based): appended when pos is the
\* card's length, otherwise written over the entry at pos.
PutOnto(d, c, pos, s) ==
    [d EXCEPT ![c + 1] = IF pos = Len(d[c + 1])
                         THEN Append(d[c + 1], s)
                         ELSE [d[c + 1] EXCEPT ![pos + 1] = s]]

-----------------------------------------------------------------------------
(* The two exported functions, called on their own                         *)

Init ==
    /\ order \in Orders
    /\ pc = "start"
    /\ plane = <<>>
    /\ consoleErrors = {}
    /\ deck = <<>>
    /\ passed = FALSE
    /\ errors = {}
    /\ mutation = NoMutation
    /\ cardSymbols = <<>>
    /\ verificationResult = "null"
    /\ handlerDeck = <<>>
    /\ verifyLog = <<>>

\* constructProjectivePlane(order): the deck is returned whatever the checks
\* of lines 89-109 report.
Construct ==
    /\ pc = "start"
    /\ plane' = constructProjectivePlane(order)
    /\ consoleErrors' = SelfCheck(order, plane')
    /\ deck' = plane'
    /\ pc' = "built"
    /\ UNCHANGED <<order, passed, errors, mutation, appVars>>

\* A symbol the card does not hold is put onto one card of the order-7 deck.
Mutate(c, pos, s) ==
    /\ pc = "built"
    /\ order = VerifyOrder
    /\ c % MutStride = 0
    /\ s \notin Range(plane[c + 1])
    /\ deck' = PutOnto(plane, c, pos, s)
    /\ mutation' = [card |-> c, pos |-> pos, symbol |-> s]
    /\ pc' = "mutated"
    /\ UNCHANGED <<order, plane, consoleErrors, passed, errors, appVars>>

\* verifyProjectivePlane(deck)
Verify ==
    /\ pc \in {"built", "mutated"}
    /\ errors' = verifyErrors(deck)
    /\ passed' = (errors' = {})
    /\ pc' = "verified"
    /\ UNCHANGED <<order, plane, consoleErrors, deck, mutation, appVars>>

Next ==
    \/ Construct
    \/ \E c \in 0..(Len(plane) - 1) : \E pos \in 0..Len(plane[c + 1]) :
          \E s \in 0..(Len(plane) - 1) : Mutate(c, pos, s)
    \/ Verify

Spec == Init /\ [][Next]_vars

-----------------------------------------------------------------------------
(* The App component                                                       *)

\* The component after its first render: both states hold their initial
\* values, the button is on screen and the effect has not run yet.
InitApp ==
    /\ order = AppOrder
    /\ pc = "mounted"
    /\ plane = <<>>
    /\ consoleErrors = {}
    /\ deck = <<>>
    /\ passed = FALSE
    /\ errors = {}
    /\ mutation = NoMutation
    /\ cardSymbols = <<>>
    /\ verificationResult = "null"
    /\ handlerDeck = <<>>
    /\ verifyLog = <<>>

Clicks == Cardinality({i \in 1..Len(verifyLog) : verifyLog[i].by = "click"})

\* useEffect(() => {...}, []): runs once after the first render.
StartupEffect ==
    /\ pc = "mounted"
    /\ plane' = constructProjectivePlane(AppOrder)
    /\ consoleErrors' = SelfCheck(AppOrder, plane')
    /\ cardSymbols' = generateCardSymbols
    /\ deck' = cardSymbols'
    /\ passed' = verifyProjectivePlane(deck')
    /\ errors' = verifyErrors(deck')
    /\ verificationResult' = StatusOf(passed')
    /\ verifyLog' = Append(verifyLog,
                           [by |-> "effect", afterEffect |-> FALSE,
                            onCurrent |-> TRUE, passed |-> passed'])
    /\ pc' = "effectDone"
    /\ UNCHANGED <<order, mutation, handlerDeck>>

\* The render that follows setCardSymbols: App() runs again and the button
\* gets a handleVerify that closes over the new cardSymbols.
Render ==
    /\ handlerDeck # cardSymbols
    /\ handlerDeck' = cardSymbols
    /\ UNCHANGED <<libVars, pc, deck, passed, errors, cardSymbols,
                   verificationResult, verifyLog>>

\* A click on "Verify Cards": the handleVerify of the latest render runs.
HandleVerify ==
    /\ Clicks < MaxClicks
    /\ deck' = handlerDeck
    /\ passed' = verifyProjectivePlane(deck')
    /\ errors' = verifyErrors(deck')
    /\ verificationResult' = StatusOf(passed')
    /\ verifyLog' = Append(verifyLog,
                           [by |-> "click", afterEffect |-> pc = "effectDone",
                            onCurrent |-> deck' = cardSymbols, passed |-> passed'])
    /\ UNCHANGED <<libVars, pc, cardSymbols, handlerDeck>>

NextApp ==
    \/ StartupEffect
    \/ Render
    \/ HandleVerify

SpecApp == InitApp /\ [][NextApp]_vars

-----------------------------------------------------------------------------
(* Properties                                                              *)

\* The number of point indices two cards have in common.
Common(a, b) == Cardinality(Range(a) \cap Range(b))

PairwiseOne(d) ==
    \A i \in 1..Len(d) : \A j \in (i + 1)..Len(d) : Common(d[i], d[j]) = 1

CompleteDeck(q, d) ==
    /\ Len(d) = q * q + q + 1
    /\ \A i \in 1..Len(d) : Len(d[i]) = q + 1

\* The deck in closed form: card m*q+b holds x*q + ((m*x+b) mod q) for
\* x = 0..q-1, then q*q+m; card q*q+k holds k*q+y for y = 0..q-1, then q*q+q;
\* the last card holds q*q+0, ..., q*q+(q-1), then q*q+q.
ReferenceDeck(q) ==
    [p \in 1..(q * q + q + 1) |->
        IF p <= q * q
        THEN LET m == (p - 1) \div q
                 b == (p - 1) % q
             IN  [x1 \in 1..(q + 1) |->
                     IF x1 <= q THEN (x1 - 1) * q + ((m * (x1 - 1) + b) % q)
                                ELSE q * q + m]
        ELSE IF p <= q * q + q
        THEN LET k == p - 1 - q * q
             IN  [y1 \in 1..(q + 1) |->
                     IF y1 <= q THEN k * q + (y1 - 1) ELSE q * q + q]
        ELSE [x1 \in 1..(q + 1) |-> q * q + (x1 - 1)]]

\* C1: for every order q in {2, 3, 5, 7}, every two distinct cards of the
\* deck returned by constructProjectivePlane(q) have exactly one point index
\* in common.
C1_PairsShareOne ==
    (pc = "built" /\ order \in TestOrders) => PairwiseOne(plane)

C1_Witness == pc = "built" /\ order = 5 /\ Len(plane) = 31

\* C2: for every order q in {2, 3, 5, 7}, constructProjectivePlane(q) returns
\* q*q+q+1 cards, each of q+1 pairwise distinct point indices, none of them
\* the -1 of a failed lookup.
C2_DeckShape ==
    (pc = "built" /\ order \in TestOrders) =>
        /\ Len(plane) = order * order + order + 1
        /\ \A i \in 1..Len(plane) :
              /\ Len(plane[i]) = order + 1
              /\ Cardinality(Range(plane[i])) = order + 1
              /\ -1 \notin Range(plane[i])

C2_Witness == pc = "built" /\ order = 7 /\ Len(plane) = 57 /\ Len(plane[57]) = 8

\* C3: for every order q in {2, 3, 5, 7}, the point indices over all cards
\* of constructProjectivePlane(q) are exactly 0..q*q+q.
C3_UnionCovers ==
    (pc = "built" /\ order \in TestOrders) =>
        UNION {Range(plane[i]) : i \in 1..Len(plane)} = 0..(order * order + order)

C3_Witness == pc = "built" /\ order = 3 /\ plane # <<>>

\* C4: for every order q in {2, 3, 5, 7}, verifyProjectivePlane applied to
\* constructProjectivePlane(q) returns true and records no diagnostic.
C4_VerifyAcceptsBuiltDeck ==
    (pc = "verified" /\ mutation = NoMutation /\ order \in TestOrders) =>
        (passed /\ errors = {})

\* C5: with a symbol that card c of constructProjectivePlane(7) does not hold
\* appended to c, or written over one symbol of c, verifyProjectivePlane
\* returns false and records a diagnostic for a pair of cards that includes c.
C5_MutationDetected ==
    (pc = "verified" /\ mutation # NoMutation) =>
        /\ ~passed
        /\ \E e \in errors :
              e[1] = "pair" /\ (e[2] = mutation.card \/ e[3] = mutation.card)

C5_Witness ==
    /\ pc = "verified"
    /\ mutation.card = 49
    /\ mutation.pos = 3
    /\ deck # plane
    /\ Len(deck[50]) = 8

C5_WitnessAppend ==
    pc = "verified" /\ mutation.card = 56 /\ Len(deck[57]) = 9

\* C6: SYMBOLS gives every point index 0..56 of the order-7 deck a defined
\* glyph, distinct indices distinct glyphs, so that no entry of a card
\* returned by generateCardSymbols() is undefined.
C6_GlyphsDefined ==
    pc = "effectDone" =>
        /\ \A p \in 0..(AppOrder * AppOrder + AppOrder) : SymbolAt(p) # Undefined
        /\ \A p1, p2 \in 0..(AppOrder * AppOrder + AppOrder) :
              p1 # p2 => SymbolAt(p1) # SymbolAt(p2)
        /\ \A i \in 1..Len(cardSymbols) : Undefined \notin Range(cardSymbols[i])

\* C7: once the startup effect has built and verified the deck, every
\* handleVerify runs verifyProjectivePlane on the deck built at startup,
\* cardSymbols stays that deck, and the status is what the startup
\* verification produced, "Verification passed!".
C7_VerifyOnBuiltDeck ==
    pc = "effectDone" =>
        /\ cardSymbols = generateCardSymbols
        /\ verificationResult = "Verification passed!"
        /\ \A i \in 1..Len(verifyLog) :
              (verifyLog[i].by = "click" /\ verifyLog[i].afterEffect) =>
                  (verifyLog[i].onCurrent /\ verifyLog[i].passed)

\* Once App has rendered again after the startup effect, handleVerify closes
\* over the built deck: every click from then on verifies that deck and
\* sets "Verification passed!".
RenderedVerifyOnBuiltDeck ==
    [][(pc = "effectDone" /\ handlerDeck = cardSymbols /\ verifyLog' # verifyLog) =>
          (/\ deck' = generateCardSymbols
           /\ cardSymbols' = generateCardSymbols
           /\ verificationResult' = "Verification passed!")]_vars

\* C8: for every order q in 2..7, constructProjectivePlane(q) is the deck of
\* the closed form, card by card and entry by entry.
C8_ClosedForm ==
    pc = "built" => plane = ReferenceDeck(order)

C8_Witness == pc = "built" /\ order = 6 /\ plane[7] = <<0, 7, 14, 21, 28, 35, 37>>

\* C9: for every order q in 2..7 constructProjectivePlane(q) does not abort
\* and returns q*q+q+1 cards of q+1 entries; for q = 6 some two cards do not
\* share exactly one symbol, which is reported as a diagnostic while the deck
\* is returned all the same.
C9_AlwaysReturnsDeck ==
    /\ pc = "start" => ENABLED Construct
    /\ pc = "built" =>
          /\ CompleteDeck(order, plane)
          /\ deck = plane
          /\ order = 6 =>
                /\ ~PairwiseOne(plane)
                /\ \E e \in consoleErrors : e[1] = "pair"

C9_Witness == pc = "built" /\ order = 6 /\ Len(plane) = 43 /\ consoleErrors # {}

\* C10: every two distinct cards of constructProjectivePlane(4) share
\* exactly one point index.
C10_OrderFourValid ==
    (pc = "built" /\ order = 4) => PairwiseOne(plane)

====
